---- MODULE Spec2Model ----
(***************************************************************************)
(* Model of resources/featureLoader.py: the exporter that loads a          *)
(* configuration script by path and prints its BUILD_OPTIONS as a JSON     *)
(* array.  One run of the process is one behaviour.  The inputs of a run   *)
(* (the command line and the content of the script file) are fixed in the  *)
(* initial state; every statement of the program is one action.            *)
(*                                                                         *)
(* Scope: the configuration script is taken to define values only; a       *)
(* script that itself writes to standard output, ends the process or does  *)
(* not return is outside the model.  Standard output is the sequence of    *)
(* tokens written to it; a JSON string or literal is one token.            *)
(***************************************************************************)
EXTENDS Integers, Sequences, FiniteSets, TLC

(* ----------------------------- bounds --------------------------------- *)
MaxArgs == 2      \* command-line arguments after the program name: 0..MaxArgs
MaxOpts == 3      \* length of BUILD_OPTIONS: 0..MaxOpts
MaxObjs == 2      \* distinct option objects the script creates

(* --------------------------- input domains ---------------------------- *)
\* attribute names an option may carry, in the order its constructor
\* assigns them
FieldNames == <<"name", "default">>

Fields == {FieldNames[n] : n \in DOMAIN FieldNames}

\* Python attribute values: a bool, a str whose text is that of the bool
\* and a value json.dumps rejects (a set)
PyValues == {[type |-> "bool", v |-> "True"],
             [type |-> "str",  v |-> "True"],
             [type |-> "set",  v |-> "set()"]}

\* option.__dict__ : attribute name -> attribute value
Dicts == UNION {[S -> PyValues] : S \in SUBSET Fields}

ObjIds == 1..MaxObjs

\* values of BUILD_OPTIONS: lists of references to option objects, the
\* objects numbered in the order in which the list first mentions them
OptSeqs ==
    {o \in UNION {[1..n -> ObjIds] : n \in 0..MaxOpts} :
        \A p \in DOMAIN o : \A id \in 1..(o[p] - 1) : \E q \in 1..(p - 1) : o[q] = id}

Range(s) == {s[n] : n \in DOMAIN s}

\* the namespace of a module before the script has run in it
EmptyNamespace == [loaded |-> FALSE, symbol |-> "absent", eq |-> "identity",
                   opts |-> <<>>, heap |-> <<>>]

\* namespace a script leaves behind when it binds BUILD_OPTIONS to the list
\* o of option objects with attributes h; the class of the objects compares
\* by identity (object.__eq__) or by value (a dataclass)
ListNamespace(e, o, h) ==
    [loaded |-> TRUE, symbol |-> "list", eq |-> e, opts |-> o, heap |-> h]

\* namespace of a script that leaves BUILD_OPTIONS absent, or bound to a
\* value that is not iterable
OtherNamespace(s) ==
    [loaded |-> TRUE, symbol |-> s, eq |-> "identity", opts |-> <<>>, heap |-> <<>>]

(* ------------------------------ tokens -------------------------------- *)
Tok(k, t) == [kind |-> k, text |-> t]
LBRACKET == Tok("punct", "[")
RBRACKET == Tok("punct", "]")
LBRACE == Tok("punct", "{")
RBRACE == Tok("punct", "}")
COMMA == Tok("punct", ",")
ITEMSEP == Tok("punct", ", ")
KEYSEP == Tok("punct", ": ")
NL == Tok("ws", "\n")

(* ------------------------------ state --------------------------------- *)
VARIABLES argv,      \* sys.argv: program name followed by the arguments
          script,    \* content of the file the argument names
          pc,        \* statement about to run
          module,    \* namespace of the loaded module
          i,         \* position of the loop in BUILD_OPTIONS
          out,       \* tokens written to standard output
          exitCode,  \* -1 while running, then the process exit status
          error,     \* phase in which the run was abandoned, or "none"
          trace      \* steps executed so far, in order

vars == <<argv, script, pc, module, i, out, exitCode, error, trace>>

Step(op, k) == [op |-> op, k |-> k]

(* ------------------------ json.dumps(__dict__) ------------------------ *)
Serializable(d) == \A f \in DOMAIN d : d[f].type # "set"

Keys(d) == SelectSeq(FieldNames, LAMBDA f : f \in DOMAIN d)

\* str() of the value in place of its JSON form
DumpsValueAs(v) == Tok("string", v.v)

DumpsValue(v) ==
    IF v.type = "bool" THEN Tok("lit", IF v.v = "True" THEN "true" ELSE "false")
    ELSE Tok("string", v.v)

RECURSIVE DumpsItems(_, _)
DumpsItems(d, ks) ==
    IF ks = <<>> THEN <<>>
    ELSE <<Tok("string", Head(ks)), KEYSEP, DumpsValue(d[Head(ks)])>>
         \o (IF Tail(ks) = <<>> THEN <<>> ELSE <<ITEMSEP>>)
         \o DumpsItems(d, Tail(ks))

Dumps(d) == <<LBRACE>> \o DumpsItems(d, Keys(d)) \o <<RBRACE>>

\* option == module.BUILD_OPTIONS[-1]
PyEq(a, b) ==
    IF module.eq = "identity" THEN a = b
    ELSE module.heap[a] = module.heap[b]

(* ----------------------------- actions -------------------------------- *)
\* the file named by the argument cannot be loaded, raises while it
\* executes, or executes and leaves a namespace
Init ==
    /\ argv \in UNION {[1..n -> {"arg"}] : n \in 1..(MaxArgs + 1)}
    /\ \/ \E l \in {"unloadable", "raises"} : script = [load |-> l, ns |-> EmptyNamespace]
       \/ \E s \in {"absent", "noniterable"} : script = [load |-> "ok", ns |-> OtherNamespace(s)]
       \/ \E e \in {"identity", "value"}, o \in OptSeqs :
             \E h \in [Range(o) -> Dicts] :
                script = [load |-> "ok", ns |-> ListNamespace(e, o, h)]
    /\ pc = "argcheck"
    /\ module = EmptyNamespace
    /\ i = 0
    /\ out = <<>>
    /\ exitCode = -1
    /\ error = "none"
    /\ trace = <<>>

\* the exception swallowed: the process ends with status 0
RaiseAs(e) ==
    /\ error' = e
    /\ exitCode' = 0
    /\ pc' = "done"

\* an uncaught exception (or sys.exit(1)) ends the process with status 1
Raise(e) ==
    /\ error' = e
    /\ exitCode' = 1
    /\ pc' = "done"

\* the argument check written as "too few arguments" only
CheckArgsAs ==
    /\ pc = "argcheck"
    /\ trace' = Append(trace, Step("argcheck", 0))
    /\ IF Len(argv) < 2
       THEN Raise("usage")
       ELSE pc' = "load" /\ UNCHANGED <<error, exitCode>>
    /\ UNCHANGED <<argv, script, module, i, out>>

CheckArgs ==
    /\ pc = "argcheck"
    /\ trace' = Append(trace, Step("argcheck", 0))
    /\ IF Len(argv) # 2
       THEN Raise("usage")
       ELSE pc' = "load" /\ UNCHANGED <<error, exitCode>>
    /\ UNCHANGED <<argv, script, module, i, out>>

\* a failed load attempted a second time
LoadScriptAs ==
    /\ pc = "load"
    /\ trace' = Append(trace, Step("load", 0))
    /\ IF script.load # "ok"
       THEN /\ IF \E n \in DOMAIN trace : trace[n].op = "load"
               THEN Raise("load")
               ELSE UNCHANGED <<pc, error, exitCode>>
            /\ UNCHANGED module
       ELSE /\ module' = script.ns
            /\ pc' = "open"
            /\ UNCHANGED <<error, exitCode>>
    /\ UNCHANGED <<argv, script, i, out>>

LoadScript ==
    /\ pc = "load"
    /\ trace' = Append(trace, Step("load", 0))
    /\ IF script.load # "ok"
       THEN Raise("load") /\ UNCHANGED module
       ELSE /\ module' = script.ns
            /\ pc' = "open"
            /\ UNCHANGED <<error, exitCode>>
    /\ UNCHANGED <<argv, script, i, out>>

\* print("[") without end=""
PrintOpenAs ==
    /\ pc = "open"
    /\ trace' = Append(trace, Step("open", 0))
    /\ out' = out \o <<LBRACKET, NL>>
    /\ pc' = "for"
    /\ UNCHANGED <<argv, script, module, i, exitCode, error>>

PrintOpen ==
    /\ pc = "open"
    /\ trace' = Append(trace, Step("open", 0))
    /\ out' = out \o <<LBRACKET>>
    /\ pc' = "for"
    /\ UNCHANGED <<argv, script, module, i, exitCode, error>>

ForInit ==
    /\ pc = "for"
    /\ trace' = Append(trace, Step("access", 0))
    /\ IF module.symbol # "list"
       THEN Raise("access")
       ELSE pc' = "next" /\ UNCHANGED <<error, exitCode>>
    /\ UNCHANGED <<argv, script, module, i, out>>

\* the loop written over BUILD_OPTIONS[:-1]
ForNextAs ==
    /\ pc = "next"
    /\ IF i < Len(module.opts) - 1
       THEN i' = i + 1 /\ pc' = "body"
       ELSE i' = i /\ pc' = "close"
    /\ UNCHANGED <<argv, script, module, out, exitCode, error, trace>>

ForNext ==
    /\ pc = "next"
    /\ IF i < Len(module.opts)
       THEN i' = i + 1 /\ pc' = "body"
       ELSE i' = i /\ pc' = "close"
    /\ UNCHANGED <<argv, script, module, out, exitCode, error, trace>>

\* the last record recognised by its position instead of by ==
BodyByPositionAs ==
    /\ pc = "body"
    /\ LET option == module.opts[i]
           d == module.heap[option]
       IN /\ trace' = trace \o <<Step("last", i), Step("serialize", i)>>
          /\ IF ~Serializable(d)
             THEN Raise("serialize") /\ UNCHANGED out
             ELSE /\ out' = out \o Dumps(d)
                              \o (IF i = Len(module.opts) THEN <<>> ELSE <<COMMA, NL>>)
                  /\ pc' = "next"
                  /\ UNCHANGED <<error, exitCode>>
    /\ UNCHANGED <<argv, script, module, i>>

\* the record streamed to standard output while it is being serialized
BodyStreamingAs ==
    /\ pc = "body"
    /\ LET option == module.opts[i]
           last == module.opts[Len(module.opts)]
           d == module.heap[option]
       IN /\ trace' = trace \o <<Step("last", i), Step("serialize", i)>>
          /\ IF ~Serializable(d)
             THEN Raise("serialize") /\ out' = out \o <<LBRACE>>
             ELSE /\ out' = out \o Dumps(d)
                              \o (IF PyEq(option, last) THEN <<>> ELSE <<COMMA, NL>>)
                  /\ pc' = "next"
                  /\ UNCHANGED <<error, exitCode>>
    /\ UNCHANGED <<argv, script, module, i>>

Body ==
    /\ pc = "body"
    /\ LET option == module.opts[i]
           last == module.opts[Len(module.opts)]
           d == module.heap[option]
       IN /\ trace' = trace \o <<Step("last", i), Step("serialize", i)>>
          /\ IF ~Serializable(d)
             THEN Raise("serialize") /\ UNCHANGED out
             ELSE /\ out' = out \o Dumps(d)
                              \o (IF PyEq(option, last) THEN <<>> ELSE <<COMMA, NL>>)
                  /\ pc' = "next"
                  /\ UNCHANGED <<error, exitCode>>
    /\ UNCHANGED <<argv, script, module, i>>

\* print("]", end="")
PrintCloseAs ==
    /\ pc = "close"
    /\ trace' = Append(trace, Step("close", 0))
    /\ out' = out \o <<RBRACKET>>
    /\ exitCode' = 0
    /\ pc' = "done"
    /\ UNCHANGED <<argv, script, module, i, error>>

PrintClose ==
    /\ pc = "close"
    /\ trace' = Append(trace, Step("close", 0))
    /\ out' = out \o <<RBRACKET, NL>>
    /\ exitCode' = 0
    /\ pc' = "done"
    /\ UNCHANGED <<argv, script, module, i, error>>

Next ==
    \/ CheckArgs
    \/ LoadScript
    \/ PrintOpen
    \/ ForInit
    \/ ForNext
    \/ Body
    \/ PrintClose

Spec == Init /\ [][Next]_vars

\* the interpreter runs the next statement as long as there is one
FairSpec == Spec /\ WF_vars(Next)

(* ------------------- reading standard output back --------------------- *)
BUILD_OPTIONS == module.opts

Success == pc = "done" /\ exitCode = 0

Opens(s) == {p \in DOMAIN s : s[p] = LBRACE}

NthPos(S, n) == CHOOSE p \in S : Cardinality({q \in S : q < p}) = n - 1

\* position of the closing brace of the object opened at p (flat objects)
CloseOf(s, p) ==
    LET C == {q \in DOMAIN s : q > p /\ s[q] = RBRACE}
    IN IF C = {} THEN Len(s) ELSE CHOOSE q \in C : \A r \in C : q <= r

\* the serialized records found in s, in the order they were written
Objects(s) ==
    [n \in 1..Cardinality(Opens(s)) |->
        SubSeq(s, NthPos(Opens(s), n), CloseOf(s, NthPos(Opens(s), n)))]

\* position in s of the closing brace of the n-th record
ObjEnd(s, n) == CloseOf(s, NthPos(Opens(s), n))

LoadsValue(t) ==
    IF t.kind = "lit"
    THEN [type |-> "bool", v |-> IF t.text = "true" THEN "True" ELSE "False"]
    ELSE [type |-> "str", v |-> t.text]

\* the mapping a JSON reader builds from the tokens of one flat object
LoadsObject(o) ==
    LET inner == SubSeq(o, 2, Len(o) - 1)
        P == {p \in DOMAIN inner : p % 4 = 1 /\ p + 2 <= Len(inner)}
    IN [k \in {inner[p].text : p \in P} |->
           LoadsValue(inner[(CHOOSE p \in P : inner[p].text = k) + 2])]

\* token classes of the JSON grammar
Class(t) ==
    IF t \in {COMMA, ITEMSEP} THEN ","
    ELSE IF t = KEYSEP THEN ":"
    ELSE IF t.kind = "punct" THEN t.text
    ELSE IF t.kind = "string" THEN "string"
    ELSE "value"

\* recognizer of a JSON array of flat objects
JsonStep(st, c) ==
    CASE st = "start" /\ c = "[" -> "arr0"
      [] st = "arr0" /\ c = "]" -> "end"
      [] st \in {"arr0", "arr2"} /\ c = "{" -> "obj0"
      [] st = "arr1" /\ c = "," -> "arr2"
      [] st = "arr1" /\ c = "]" -> "end"
      [] st = "obj0" /\ c = "}" -> "arr1"
      [] st \in {"obj0", "obj4"} /\ c = "string" -> "obj1"
      [] st = "obj1" /\ c = ":" -> "obj2"
      [] st = "obj2" /\ c \in {"string", "value"} -> "obj3"
      [] st = "obj3" /\ c = "," -> "obj4"
      [] st = "obj3" /\ c = "}" -> "arr1"
      [] OTHER -> "bad"

RECURSIVE JsonRun(_, _)
JsonRun(st, s) == IF s = <<>> THEN st ELSE JsonRun(JsonStep(st, Class(Head(s))), Tail(s))

ValidJsonArray(s) == JsonRun("start", SelectSeq(s, LAMBDA t : t.kind # "ws")) = "end"

(* ------------------------------ claims -------------------------------- *)

\* C1: whenever the argument count is not exactly one, nothing is ever
\* written to standard output, the script is never loaded or executed, and
\* the run ends right after the argument check with exit code 1.
C1_UsageError ==
    Len(argv) # 2 =>
        /\ out = <<>>
        /\ ~module.loaded
        /\ \A n \in DOMAIN trace : trace[n].op # "load"
        /\ pc \in {"argcheck", "done"}
        /\ (pc = "done" => exitCode = 1)

C1_Witness == pc = "done" /\ Len(argv) = 3 /\ script.load = "ok" /\ exitCode = 1

\* C2: after a successful run over a BUILD_OPTIONS of length >= 2, whatever
\* its elements, every record but the last is directly followed by the
\* separator, the last record is directly followed by the closing bracket,
\* and the output is a valid JSON array.
C2_SeparatorExactness ==
    (Success /\ Len(BUILD_OPTIONS) >= 2) =>
        /\ ValidJsonArray(out)
        /\ Len(Objects(out)) = Len(BUILD_OPTIONS)
        /\ \A n \in 1..Len(Objects(out)) :
              IF n < Len(Objects(out))
              THEN SubSeq(out, ObjEnd(out, n) + 1, ObjEnd(out, n) + 2) = <<COMMA, NL>>
              ELSE out[ObjEnd(out, n) + 1] = RBRACKET

\* C3: after a successful run the output holds as many records as
\* BUILD_OPTIONS has elements, and the n-th record written is the
\* serialization of the n-th element.
C3_OrderPreservation ==
    Success =>
        /\ Len(Objects(out)) = Len(BUILD_OPTIONS)
        /\ \A n \in 1..Len(Objects(out)) :
              Objects(out)[n] = Dumps(module.heap[BUILD_OPTIONS[n]])

C3_Witness ==
    /\ Success
    /\ Len(BUILD_OPTIONS) >= 3
    /\ module.heap[BUILD_OPTIONS[1]] # module.heap[BUILD_OPTIONS[2]]
    /\ BUILD_OPTIONS[3] = BUILD_OPTIONS[1]

Lines(s) == Cardinality({p \in DOMAIN s : s[p] = NL})

Ops(t) == {t[n].op : n \in DOMAIN t}

\* C4 (as stated): after a successful run standard output is exactly one
\* line, whatever the length of BUILD_OPTIONS.
C4_SingleLine ==
    Success => (Lines(out) = 1 /\ out[Len(out)] = NL)

\* C4 (amended): after a successful run standard output ends with the
\* closing bracket and one newline; it has one line more than the number of
\* records that do not compare equal to the last element, hence exactly one
\* line when BUILD_OPTIONS has 0 or 1 records.
C4_LinesBySeparators ==
    Success =>
        /\ SubSeq(out, Len(out) - 1, Len(out)) = <<RBRACKET, NL>>
        /\ Lines(out) = 1 + Cardinality({n \in DOMAIN BUILD_OPTIONS :
                              ~PyEq(BUILD_OPTIONS[n], BUILD_OPTIONS[Len(BUILD_OPTIONS)])})
        /\ (Len(BUILD_OPTIONS) <= 1 => Lines(out) = 1)

C4_Witness == Success /\ Len(BUILD_OPTIONS) >= 2 /\ Lines(out) = Len(BUILD_OPTIONS)

\* C5: every record on standard output, read back as JSON, has exactly the
\* attribute names of the option it was made from as keys and maps each to
\* the option's value; the option objects are the ones the script left.
C5_FieldFidelity ==
    /\ \A n \in 1..Len(Objects(out)) :
          /\ n <= Len(BUILD_OPTIONS)
          /\ DOMAIN LoadsObject(Objects(out)[n]) = DOMAIN module.heap[BUILD_OPTIONS[n]]
          /\ \A f \in DOMAIN module.heap[BUILD_OPTIONS[n]] :
                LoadsObject(Objects(out)[n])[f] = module.heap[BUILD_OPTIONS[n]][f]
    /\ (module.loaded => module = script.ns)

C5_Witness ==
    /\ Success
    /\ Len(BUILD_OPTIONS) >= 2
    /\ module.heap[BUILD_OPTIONS[1]] =
          [name |-> [type |-> "str", v |-> "True"], default |-> [type |-> "bool", v |-> "True"]]
    /\ DOMAIN module.heap[BUILD_OPTIONS[2]] = {"default"}

EmptyOptionsRun ==
    /\ Len(argv) = 2
    /\ script.load = "ok"
    /\ script.ns.symbol = "list"
    /\ script.ns.opts = <<>>

\* C6: a run on a script that loads and defines BUILD_OPTIONS as the empty
\* list ends with exit code 0 and the output is the line "[]": the opening
\* bracket, directly the closing bracket, and the line end of the last
\* print; the last element of the list is never looked up.
C6_EmptySequence ==
    EmptyOptionsRun =>
        /\ "last" \notin Ops(trace)
        /\ (pc = "done" => exitCode = 0 /\ out = <<LBRACKET, RBRACKET, NL>>)

C6_Witness == EmptyOptionsRun /\ pc = "done" /\ "close" \in Ops(trace)

\* C7: exit code 0 is reached only once the whole array, closing bracket
\* included, is on standard output; a run abandoned while loading the
\* script, accessing BUILD_OPTIONS or serializing a record ends with a
\* non-zero exit code and without the closing bracket, so its output is not
\* a JSON array.
C7_ExitCodes ==
    /\ exitCode = 0 =>
          /\ pc = "done"
          /\ "close" \in Ops(trace)
          /\ out[1] = LBRACKET
          /\ SubSeq(out, Len(out) - 1, Len(out)) = <<RBRACKET, NL>>
          /\ Len(Objects(out)) = Len(BUILD_OPTIONS)
    /\ error \in {"load", "access", "serialize"} =>
          /\ pc = "done"
          /\ exitCode > 0
          /\ \A p \in DOMAIN out : out[p] # RBRACKET
          /\ ~ValidJsonArray(out)

C7_Witness == pc = "done" /\ error = "serialize" /\ i = 2 /\ exitCode = 1

\* position of a step in the program text; the loop body of the k-th
\* element lies between the access of BUILD_OPTIONS and the closing print
Rank(st) ==
    CASE st.op = "argcheck" -> 1
      [] st.op = "load" -> 2
      [] st.op = "open" -> 3
      [] st.op = "access" -> 4
      [] st.op = "last" -> 3 + 2 * st.k
      [] st.op = "serialize" -> 4 + 2 * st.k
      [] st.op = "close" -> 5 + 2 * Len(script.ns.opts)

TraceLinear ==
    /\ \A a, b \in DOMAIN trace : a < b => Rank(trace[a]) < Rank(trace[b])
    /\ ("access" \in Ops(trace) => "load" \in Ops(trace) /\ module.loaded)
    /\ (error # "none" => pc = "done")

\* C8: the steps of a run happen in program order and each at most once
\* (the k-th record is looked at once, after the (k-1)-th), BUILD_OPTIONS
\* is accessed only after the script has been executed, nothing runs after
\* a failure or after the end, and every run ends.
C8_LinearSinglePass ==
    /\ []TraceLinear
    /\ [][pc # "done"]_vars
    /\ <>(pc = "done")

C8_Witness == Success /\ Len(trace) = 5 + 2 * Len(BUILD_OPTIONS) /\ Len(BUILD_OPTIONS) >= 2

Terminator(n) ==
    IF PyEq(BUILD_OPTIONS[n], BUILD_OPTIONS[Len(BUILD_OPTIONS)]) THEN <<>> ELSE <<COMMA, NL>>

RECURSIVE Emitted(_)
Emitted(k) ==
    IF k = 0 THEN <<>>
    ELSE Emitted(k - 1) \o Dumps(module.heap[BUILD_OPTIONS[k]]) \o Terminator(k)

\* C9: nothing is written before the script has been loaded and executed,
\* so a failed load leaves standard output empty; the opening bracket is
\* written before BUILD_OPTIONS is accessed, so a failed access leaves
\* exactly the bracket, and a failure on the k-th record leaves the bracket
\* and the first k-1 records with their terminators.
C9_PartialWrites ==
    /\ (out # <<>> => module.loaded /\ "load" \in Ops(trace))
    /\ (error = "load" => out = <<>>)
    /\ ("access" \in Ops(trace) => out # <<>> /\ out[1] = LBRACKET)
    /\ (error = "access" => out = <<LBRACKET>>)
    /\ (error = "serialize" => out = <<LBRACKET>> \o Emitted(i - 1))

C9_Witness == error = "serialize" /\ i = 3 /\ Len(out) > 5

\* C10: a record is directly followed by the separator exactly when it
\* does not compare equal to the last element of BUILD_OPTIONS; when only
\* the last element compares equal to the last, a successful run writes
\* length-1 separators, one after each record but the last.
C10_TerminatorByEquality ==
    /\ \A n \in 1..Len(Objects(out)) :
          (/\ ObjEnd(out, n) + 2 <= Len(out)
           /\ SubSeq(out, ObjEnd(out, n) + 1, ObjEnd(out, n) + 2) = <<COMMA, NL>>)
          <=> ~PyEq(BUILD_OPTIONS[n], BUILD_OPTIONS[Len(BUILD_OPTIONS)])
    /\ (/\ Success
        /\ Len(BUILD_OPTIONS) >= 1
        /\ \A n \in 1..(Len(BUILD_OPTIONS) - 1) :
              ~PyEq(BUILD_OPTIONS[n], BUILD_OPTIONS[Len(BUILD_OPTIONS)]))
       => /\ Cardinality({p \in DOMAIN out : out[p] = COMMA}) = Len(BUILD_OPTIONS) - 1
          /\ \A n \in 1..(Len(BUILD_OPTIONS) - 1) : out[ObjEnd(out, n) + 1] = COMMA

C10_Witness ==
    /\ Success
    /\ module.eq = "value"
    /\ Len(BUILD_OPTIONS) = 2
    /\ BUILD_OPTIONS[1] # BUILD_OPTIONS[2]
    /\ PyEq(BUILD_OPTIONS[1], BUILD_OPTIONS[2])
    /\ Lines(out) = 1

====
